---- MODULE Spec2Model ----
(***************************************************************************)
(* Task-Management-Backend: the auth controller (register, login, refresh, *)
(* logout), the access guard (protect) and the task controller, as a state *)
(* machine over the datastore (users, tasks), the wall clock, the tokens   *)
(* handed to clients and the requests in flight between two datastore      *)
(* operations.                                                             *)
(*                                                                         *)
(* Every action is one run of JavaScript between two awaits: the           *)
(* synchronous code that precedes a datastore operation together with that *)
(* operation; the code after the last await (the response) belongs to the  *)
(* last operation's action.  Requests interleave at the awaits.            *)
(*                                                                         *)
(* What a handler answers is an operator of the state and of the request   *)
(* (X_result); the action X applies the result's effects.  A response is   *)
(* output, not state: a request that is refused leaves the state as it is. *)
(*                                                                         *)
(* Time is the JWT NumericDate: floor(Date.now() / 1000), in seconds.      *)
(***************************************************************************)
EXTENDS Integers, Sequences, FiniteSets, Bags, TLC

VARIABLES
    clock,      \* floor(Date.now() / 1000)
    ticks,      \* number of clock advances so far (bounds the run)
    users,      \* the users table: a sequence, a user's id is its position
    tasks,      \* the tasks table: a function from the ids handed out to rows
    deleted,    \* the ids of the rows deleted from the tasks table
    issued,     \* the tokens clients hold: every token a response has carried
    superseded, \* history: refresh tokens a later login's write has overwritten
    cleared,    \* history: refresh tokens a logout presented while they were the
                \* stored value, their user not having logged in since
    toggled,    \* history: per task, the rows it held before each of its latest
                \* toggles, no other write to the task having come between
    reqs        \* the requests in flight between two awaits: a bag of records

vars == <<clock, ticks, users, tasks, deleted, issued, superseded, cleared, toggled, reqs>>

----------------------------------------------------------------------------
(* Bounds of the model *)

NReq == 2
MaxTicks == 1
MaxTasks == 2

----------------------------------------------------------------------------
(* Request values *)

\* undefined (or null) where the code expects a string: a field the body lacks
Undefined == "<undefined>"
\* the same where the value is modelled as a sequence of characters
UndefinedSeq == <<Undefined>>

Emails == {"a@x", "b@x"}

\* !x of JavaScript, for a string and for a sequence of characters
Falsy(x) == x = Undefined \/ x = ""

FalsySeq(x) == x = UndefinedSeq \/ x = <<>>

\* x ?? y of JavaScript
Coalesce(x, y) == IF x = Undefined THEN y ELSE x

CoalesceSeq(x, y) == IF x = UndefinedSeq THEN y ELSE x

----------------------------------------------------------------------------
(* Passwords: sequences of characters *)

Lower == {"a", "b", "c", "d", "e", "f", "g", "h", "i", "j", "k", "l", "m",
          "n", "o", "p", "q", "r", "s", "t", "u", "v", "w", "x", "y", "z"}
Upper == {"A", "B", "C", "D", "E", "F", "G", "H", "I", "J", "K", "L", "M",
          "N", "O", "P", "Q", "R", "S", "T", "U", "V", "W", "X", "Y", "Z"}
Digit == {"0", "1", "2", "3", "4", "5", "6", "7", "8", "9"}
Special == {"!", "@", "#", "$", "%", "^", "&", "*"}
LineTerminator == {"\n"}

MIN_PASSWORD_LENGTH == 8

\* (?=.*[class]) at the start of the input: some character of the class,
\* reached over characters that "." matches (anything but a line terminator)
Lookahead(p, class) ==
    \E i \in 1..Len(p) :
        /\ p[i] \in class
        /\ \A j \in 1..(i - 1) : p[j] \notin LineTerminator

\* [A-Za-z\d!@#$%^&*]{8,}$ from the start of the input
BodyMatch(p) ==
    /\ Len(p) >= MIN_PASSWORD_LENGTH
    /\ \A i \in 1..Len(p) : p[i] \in (Upper \cup Lower \cup Digit \cup Special)

PASSWORD_REGEX_test(p) ==
    /\ Lookahead(p, Lower)
    /\ Lookahead(p, Upper)
    /\ Lookahead(p, Digit)
    /\ Lookahead(p, Special)
    /\ BodyMatch(p)

PASSWORD_REQUIREMENTS == "Password must be at least 8 characters long and contain at least one uppercase letter, one lowercase letter, one number, and one special character (!@#$%^&*)."

\* bcrypt.hash and bcrypt.compare: bcrypt reads the first 72 bytes only
BCRYPT_MAX_BYTES == 72

Truncate(p) == SubSeq(p, 1, IF Len(p) < BCRYPT_MAX_BYTES THEN Len(p) ELSE BCRYPT_MAX_BYTES)

bcrypt_hash(p) == [bcrypt |-> Truncate(p)]

bcrypt_compare(p, h) == h = bcrypt_hash(p)

----------------------------------------------------------------------------
(* JSON Web Tokens (jsonwebtoken, HS256): a token is a function of its      *)
(* payload {id, iat, exp} and of the secret that signs it.                  *)

ACCESS_SECRET == "JWT_SECRET_ACCESS"
REFRESH_SECRET == "JWT_SECRET_REFRESH"

ACCESS_EXPIRES_IN == 900
REFRESH_EXPIRES_IN == 604800

Token(secret, id, iat, exp) == [secret |-> secret, id |-> id, iat |-> iat, exp |-> exp]

\* no cookie, or no credentials in the Authorization header
NoToken == Token("<undefined>", 0, 0, 0)
\* the empty string
EmptyToken == Token("<empty>", 0, 0, 0)
\* a string that is no JWT
GarbageToken == Token("<garbage>", 0, 0, 0)
\* the users table's NULL
NullToken == Token("<null>", 0, 0, 0)

FalsyToken(t) == t = NoToken \/ t = EmptyToken

\* jwt.sign({ id }, secret, { expiresIn }): iat is the current second
jwt_sign(id, secret, expiresIn, now) == Token(secret, id, now, now + expiresIn)

\* a verify that checks the signature and not the expiry
jwt_verify_IgnoreExpiry(t, secret, now) == t.secret = secret

\* jwt.verify(token, secret): the signature, then clockTimestamp >= exp throws
jwt_verify(t, secret, now) ==
    /\ t.secret = secret
    /\ now < t.exp

\* a JWT for user 1 that never expires, signed by someone who does not hold
\* the secrets
ForgedToken == Token("<forged>", 1, 0, 2 * REFRESH_EXPIRES_IN)

\* what a client can put in a cookie or after "Bearer "
Presentable == {NoToken, EmptyToken, GarbageToken, ForgedToken} \cup issued

\* generateTokens(userId)
generateTokens(userId, now) ==
    [accessToken |-> jwt_sign(userId, ACCESS_SECRET, ACCESS_EXPIRES_IN, now),
     refreshToken |-> jwt_sign(userId, REFRESH_SECRET, REFRESH_EXPIRES_IN, now)]

----------------------------------------------------------------------------
(* The datastore: users *)

User(email, password, refreshToken) ==
    [email |-> email, password |-> password, refreshToken |-> refreshToken]

UserIds == 1..Len(users)

\* prisma.user.findUnique({ where: { email } }): the id found, 0 for null
findUserByEmail(email) ==
    IF \E i \in UserIds : users[i].email = email
    THEN CHOOSE i \in UserIds : users[i].email = email
    ELSE 0

\* prisma.user.findUnique({ where: { id } }): the id found, 0 for null
findUserById(id) == IF id \in UserIds THEN id ELSE 0

\* prisma.user.update({ where: { id }, data: { refreshToken } })
updateRefreshToken(id, token) == [users EXCEPT ![id].refreshToken = token]

\* prisma.user.updateMany({ where: { id, refreshToken }, data: { refreshToken: null } })
updateManyClear(id, token) ==
    [i \in UserIds |->
        IF i = id /\ users[i].refreshToken = token
        THEN [users[i] EXCEPT !.refreshToken = NullToken]
        ELSE users[i]]

----------------------------------------------------------------------------
(* Requests in flight, and responses *)

\* the server takes a new request while fewer than NReq are in flight
CanAccept == BagCardinality(reqs) < NReq

InFlight(pc) == {q \in BagToSet(reqs) : q.pc = pc}

\* the request q reaches its first await / goes on from its await to the end
Await(q) == reqs (+) SetToBag({q})

Finish(q) == reqs (-) SetToBag({q})

\* res.status(status).json({ message, ... }); status 0: no response yet, the
\* request goes on after its await
Response(status, message) ==
    [status |-> status, message |-> message,
     setCookie |-> NoToken, clearCookie |-> FALSE, accessToken |-> NoToken, user |-> 0]

Pending == Response(0, "")

INTERNAL_SERVER_ERROR == Response(500, "Internal server error.")

----------------------------------------------------------------------------
(* The wall clock *)

\* the clock moves by d whole seconds between two steps
Tick(d) ==
    /\ ticks < MaxTicks
    /\ clock' = clock + d
    /\ ticks' = ticks + 1
    /\ UNCHANGED <<users, tasks, deleted, issued, reqs>>

----------------------------------------------------------------------------
(* authController: registerUser *)

\* the handler with the existence check before the password check
registerUser_result_ConflictFirst(email, password) ==
    IF Falsy(email) \/ FalsySeq(password)
    THEN Response(400, "Email and password are required.")
    ELSE IF findUserByEmail(email) # 0
    THEN Response(409, "User with this email already exists.")
    ELSE IF ~PASSWORD_REGEX_test(password)
    THEN Response(400, PASSWORD_REQUIREMENTS)
    ELSE Pending

\* up to the first await and the findUnique it waits for
registerUser_result(email, password) ==
    IF Falsy(email) \/ FalsySeq(password)
    THEN Response(400, "Email and password are required.")
    ELSE IF ~PASSWORD_REGEX_test(password)
    THEN Response(400, PASSWORD_REQUIREMENTS)
    ELSE IF findUserByEmail(email) # 0
    THEN Response(409, "User with this email already exists.")
    ELSE Pending

registerUser(email, password) ==
    /\ CanAccept
    /\ reqs' = IF registerUser_result(email, password) = Pending
               THEN Await([pc |-> "registerUser_create",
                           email |-> email, password |-> password])
               ELSE reqs
    /\ UNCHANGED <<clock, ticks, users, tasks, deleted, issued>>

\* bcrypt.hash, then prisma.user.create: the unique email makes create throw,
\* which the catch answers with 500
registerUser_create_result(q) ==
    IF findUserByEmail(q.email) # 0
    THEN INTERNAL_SERVER_ERROR
    ELSE [Response(201, "User registered successfully. Please log in.")
            EXCEPT !.user = Len(users) + 1]

registerUser_create(q) ==
    /\ q \in InFlight("registerUser_create")
    /\ users' = IF registerUser_create_result(q).status = 201
                THEN Append(users, User(q.email, bcrypt_hash(q.password), NullToken))
                ELSE users
    /\ reqs' = Finish(q)
    /\ UNCHANGED <<clock, ticks, tasks, deleted, issued>>

----------------------------------------------------------------------------
(* authController: loginUser *)

\* an answer that tells an unknown email from a wrong password
userNotFound_Reveal == Response(401, "User not found.")

\* res.status(401).json(...) when findUnique returns null
userNotFound == Response(401, "Invalid credentials.")

\* res.status(401).json(...) when bcrypt.compare returns false
passwordMismatch == Response(401, "Invalid credentials.")

\* up to generateTokens: findUnique, bcrypt.compare, the two jwt.sign
loginUser_result(email, password) ==
    IF Falsy(email) \/ FalsySeq(password)
    THEN Response(400, "Email and password are required.")
    ELSE IF findUserByEmail(email) = 0
    THEN userNotFound
    ELSE IF ~bcrypt_compare(password, users[findUserByEmail(email)].password)
    THEN passwordMismatch
    ELSE Pending

loginUser(email, password) ==
    /\ CanAccept
    /\ reqs' = IF loginUser_result(email, password) = Pending
               THEN Await([pc |-> "loginUser_update", id |-> findUserByEmail(email),
                           tokens |-> generateTokens(findUserByEmail(email), clock)])
               ELSE reqs
    /\ UNCHANGED <<clock, ticks, users, tasks, deleted, issued>>

\* prisma.user.update of the refresh token, res.cookie and the 200
loginUser_update_result(q) ==
    [Response(200, "Login successful.")
        EXCEPT !.setCookie = q.tokens.refreshToken,
               !.accessToken = q.tokens.accessToken,
               !.user = q.id]

loginUser_update(q) ==
    /\ q \in InFlight("loginUser_update")
    /\ users' = updateRefreshToken(q.id, q.tokens.refreshToken)
    /\ issued' = issued \cup {loginUser_update_result(q).accessToken,
                              loginUser_update_result(q).setCookie}
    /\ reqs' = Finish(q)
    /\ UNCHANGED <<clock, ticks, tasks, deleted>>

----------------------------------------------------------------------------
(* authController: refreshToken *)

\* a refresh that never compares the cookie with the stored token
tokenMismatch_Never(stored, presented) == FALSE

\* user.refreshToken !== refreshToken
tokenMismatch(stored, presented) == stored # presented

refreshToken_result(cookie) ==
    IF FalsyToken(cookie)
    THEN Response(401, "Unauthorized. No refresh token provided.")
    ELSE IF ~jwt_verify(cookie, REFRESH_SECRET, clock)
    THEN Response(403, "Forbidden. Refresh token invalid or expired.")
    ELSE IF findUserById(cookie.id) = 0
            \/ tokenMismatch(users[findUserById(cookie.id)].refreshToken, cookie)
    THEN Response(403, "Forbidden. Invalid refresh token.")
    ELSE [Response(200, "Access token refreshed successfully.")
            EXCEPT !.accessToken = jwt_sign(cookie.id, ACCESS_SECRET, ACCESS_EXPIRES_IN, clock)]

refreshToken(cookie) ==
    /\ issued' = issued \cup ({refreshToken_result(cookie).accessToken} \ {NoToken})
    /\ UNCHANGED <<clock, ticks, users, tasks, deleted, reqs>>

----------------------------------------------------------------------------
(* authController: logoutUser *)

\* res.clearCookie, then 204 on every path
logoutUser_result(cookie) ==
    [Response(204, "Logged out successfully.") EXCEPT !.clearCookie = TRUE]

\* the token reaches prisma.user.updateMany: it is there and jwt.verify passes
logoutUser_verified(cookie) ==
    /\ ~FalsyToken(cookie)
    /\ jwt_verify(cookie, REFRESH_SECRET, clock)

logoutUser(cookie) ==
    /\ users' = IF logoutUser_verified(cookie)
                THEN updateManyClear(cookie.id, cookie)
                ELSE users
    /\ UNCHANGED <<clock, ticks, tasks, deleted, issued, reqs>>

----------------------------------------------------------------------------
(* authMiddleware: protect *)

\* the Authorization header: its scheme and what follows the first space
Header(scheme, token) == [scheme |-> scheme, token |-> token]

NoHeader == Header(Undefined, NoToken)

Headers == {NoHeader} \cup {Header(s, t) : s \in {"Bearer", "Basic"}, t \in Presentable}

\* what protect hands to next(): the response when it answers itself, else
\* Pending with req.userId set
Guarded(response, userId) == [response |-> response, userId |-> userId]

protect(authorization) ==
    LET token == IF authorization.scheme = "Bearer" THEN authorization.token ELSE NoToken
    IN  IF FalsyToken(token)
        THEN Guarded(Response(401, "Unauthorized. No access token provided."), 0)
        ELSE IF ~jwt_verify(token, ACCESS_SECRET, clock)
        THEN Guarded(Response(401, "Unauthorized. Access token invalid or expired."), 0)
        ELSE Guarded(Pending, token.id)

----------------------------------------------------------------------------
(* The datastore: tasks *)

Task(id, userId, title, description, status, createdAt) ==
    [id |-> id, userId |-> userId, title |-> title, description |-> description,
     status |-> status, createdAt |-> createdAt]

TaskIds == DOMAIN tasks

\* the id the datastore gives the next row: never one it has given before
NewTaskId == Cardinality(TaskIds \cup deleted) + 1

\* the ids a request can name: those handed out so far and one that is not
TaskIdParams == 1..(MaxTasks + 1)

\* the values the status column takes, and the one a new row gets (the Prisma
\* schema is not among the sources: from the data model of the specification)
StatusDomain == {"pending", "completed"}

DEFAULT_STATUS == "pending"

\* where: { id, userId } of findUnique and findFirst, without the owner
findOwnTask_AnyOwner(id, userId) == IF id \in TaskIds THEN id ELSE 0

\* prisma.task.findUnique / findFirst({ where: { id, userId } }): the id, 0 for null
findOwnTask(id, userId) ==
    IF id \in TaskIds /\ tasks[id].userId = userId THEN id ELSE 0

\* a task row in a response
TaskResponse(status, task) == [status |-> status, task |-> task]

NOT_FOUND == Response(404, "Task not found.")

----------------------------------------------------------------------------
(* taskController: createTask *)

createTask_result(authorization, title, description) ==
    IF protect(authorization).response # Pending
    THEN protect(authorization).response
    ELSE IF FalsySeq(title)
    THEN Response(400, "Task title is required.")
    ELSE TaskResponse(201, Task(NewTaskId, protect(authorization).userId, title,
                                description, DEFAULT_STATUS, clock))

createTask(authorization, title, description) ==
    /\ NewTaskId <= MaxTasks
    /\ tasks' = IF createTask_result(authorization, title, description).status = 201
                THEN tasks @@ (NewTaskId :> createTask_result(authorization, title, description).task)
                ELSE tasks
    /\ UNCHANGED <<clock, ticks, users, deleted, issued, reqs>>

----------------------------------------------------------------------------
(* taskController: getTaskById *)

getTaskById_result(authorization, id) ==
    IF protect(authorization).response # Pending
    THEN protect(authorization).response
    ELSE IF findOwnTask(id, protect(authorization).userId) = 0
    THEN NOT_FOUND
    ELSE TaskResponse(200, tasks[id])

getTaskById(authorization, id) ==
    /\ getTaskById_result(authorization, id).status # 0
    /\ UNCHANGED <<clock, ticks, users, tasks, deleted, issued, reqs>>

----------------------------------------------------------------------------
(* taskController: getTasks *)

\* page = '1', limit = '10' of the destructuring
DEFAULT_PAGE == <<"1">>

DEFAULT_LIMIT == <<"1", "0">>

Query(status, search, page, limit) ==
    [status |-> status, search |-> search, page |-> page, limit |-> limit]

DigitValue(ch) ==
    CASE ch = "0" -> 0 [] ch = "1" -> 1 [] ch = "2" -> 2 [] ch = "3" -> 3 [] ch = "4" -> 4
      [] ch = "5" -> 5 [] ch = "6" -> 6 [] ch = "7" -> 7 [] ch = "8" -> 8 [] ch = "9" -> 9

\* parseInt of a string of decimal digits
RECURSIVE parseInt(_)
parseInt(ds) ==
    IF Len(ds) = 0 THEN 0
    ELSE 10 * parseInt(SubSeq(ds, 1, Len(ds) - 1)) + DigitValue(ds[Len(ds)])

\* toLowerCase, for the letters used here
ToLower(ch) ==
    IF ch = "A" THEN "a" ELSE IF ch = "B" THEN "b" ELSE ch

\* title contains search, mode insensitive
ContainsInsensitive(title, search) ==
    \E i \in 0..(Len(title) - Len(search)) :
        \A j \in 1..Len(search) : ToLower(title[i + j]) = ToLower(search[j])

\* the where clause: userId always, status and title when the query has them
Matches(task, where) ==
    /\ task.userId = where.userId
    /\ ~Falsy(where.status) => task.status = where.status
    /\ ~FalsySeq(where.search) => ContainsInsensitive(task.title, where.search)

Matching(where) == {id \in TaskIds : Matches(tasks[id], where)}

\* search.trim() === '' for a search that is there
Blank(search) == \A i \in 1..Len(search) : search[i] \in {" ", "\t", "\n"}

\* up to prisma.task.count
getTasks_result(authorization, query) ==
    IF protect(authorization).response # Pending
    THEN protect(authorization).response
    ELSE Pending

getTasks(authorization, query) ==
    /\ CanAccept
    /\ reqs' = IF getTasks_result(authorization, query) = Pending
               THEN LET where == [userId |-> protect(authorization).userId,
                                  status |-> IF Falsy(query.status)
                                             THEN Undefined ELSE query.status,
                                  search |-> IF FalsySeq(query.search) \/ Blank(query.search)
                                             THEN UndefinedSeq ELSE query.search]
                        pageNumber == parseInt(IF query.page = UndefinedSeq
                                               THEN DEFAULT_PAGE ELSE query.page)
                        limitNumber == parseInt(IF query.limit = UndefinedSeq
                                                THEN DEFAULT_LIMIT ELSE query.limit)
                    IN  Await([pc |-> "getTasks_findMany", where |-> where,
                               pageNumber |-> pageNumber, limitNumber |-> limitNumber,
                               totalTasks |-> Cardinality(Matching(where))])
               ELSE reqs
    /\ UNCHANGED <<clock, ticks, users, tasks, deleted, issued>>

\* the orders of the ids in S that orderBy: { createdAt: 'desc' } allows
NewestFirst(S) ==
    {sq \in [1..Cardinality(S) -> S] :
        /\ \A i, j \in 1..Cardinality(S) : i # j => sq[i] # sq[j]
        /\ \A i, j \in 1..Cardinality(S) :
              i < j => tasks[sq[i]].createdAt >= tasks[sq[j]].createdAt}

\* skip and take
Page(sq, skip, take) ==
    [i \in 1..(IF Len(sq) - skip < take
               THEN (IF Len(sq) - skip < 0 THEN 0 ELSE Len(sq) - skip)
               ELSE take) |-> sq[skip + i]]

\* Math.floor in its place
Ceil_Floor(a, b) == a \div b

\* Math.ceil(a / b) for a >= 0, b >= 1
Ceil(a, b) == (a + b - 1) \div b

\* prisma.task.findMany and the 200: the responses the datastore's order allows
getTasks_findMany_results(q) ==
    {[status |-> 200,
      tasks |-> [i \in DOMAIN Page(sq, (q.pageNumber - 1) * q.limitNumber, q.limitNumber) |->
                    tasks[Page(sq, (q.pageNumber - 1) * q.limitNumber, q.limitNumber)[i]]],
      totalTasks |-> q.totalTasks,
      totalPages |-> Ceil(q.totalTasks, q.limitNumber),
      currentPage |-> q.pageNumber,
      limit |-> q.limitNumber] : sq \in NewestFirst(Matching(q.where))}

getTasks_findMany(q) ==
    /\ q \in InFlight("getTasks_findMany")
    /\ reqs' = Finish(q)
    /\ UNCHANGED <<clock, ticks, users, tasks, deleted, issued>>

----------------------------------------------------------------------------
(* taskController: updateTask *)

Body(title, description, status) ==
    [title |-> title, description |-> description, status |-> status]

\* up to the findFirst
updateTask_result(authorization, id, body) ==
    IF protect(authorization).response # Pending
    THEN protect(authorization).response
    ELSE IF FalsySeq(body.title) /\ Falsy(body.description) /\ Falsy(body.status)
    THEN Response(400, "At least one field (title, description, or status) is required for update.")
    ELSE IF findOwnTask(id, protect(authorization).userId) = 0
    THEN NOT_FOUND
    ELSE Pending

updateTask(authorization, id, body) ==
    /\ CanAccept
    /\ reqs' = IF updateTask_result(authorization, id, body) = Pending
               THEN Await([pc |-> "updateTask_update", id |-> id,
                           userId |-> protect(authorization).userId,
                           body |-> body, existingTask |-> tasks[id]])
               ELSE reqs
    /\ UNCHANGED <<clock, ticks, users, tasks, deleted, issued>>

\* data: { title: title ?? existingTask.title, ... }
updateTask_data(q) ==
    [title |-> CoalesceSeq(q.body.title, q.existingTask.title),
     description |-> Coalesce(q.body.description, q.existingTask.description),
     status |-> Coalesce(q.body.status, q.existingTask.status)]

\* prisma.task.update({ where: { id }, data }): throws when the row is gone or
\* the status is none the column takes
updateTask_update_result(q) ==
    IF q.id \notin TaskIds \/ updateTask_data(q).status \notin StatusDomain
    THEN INTERNAL_SERVER_ERROR
    ELSE TaskResponse(200, [tasks[q.id] EXCEPT !.title = updateTask_data(q).title,
                                              !.description = updateTask_data(q).description,
                                              !.status = updateTask_data(q).status])

updateTask_update(q) ==
    /\ q \in InFlight("updateTask_update")
    /\ tasks' = IF updateTask_update_result(q).status = 200
                THEN [tasks EXCEPT ![q.id] = updateTask_update_result(q).task]
                ELSE tasks
    /\ reqs' = Finish(q)
    /\ UNCHANGED <<clock, ticks, users, deleted, issued>>

----------------------------------------------------------------------------
(* taskController: deleteTask *)

deleteTask_result(authorization, id) ==
    IF protect(authorization).response # Pending
    THEN protect(authorization).response
    ELSE IF findOwnTask(id, protect(authorization).userId) = 0
    THEN NOT_FOUND
    ELSE Pending

deleteTask(authorization, id) ==
    /\ CanAccept
    /\ reqs' = IF deleteTask_result(authorization, id) = Pending
               THEN Await([pc |-> "deleteTask_delete", id |-> id,
                           userId |-> protect(authorization).userId])
               ELSE reqs
    /\ UNCHANGED <<clock, ticks, users, tasks, deleted, issued>>

\* prisma.task.delete({ where: { id } }): throws when the row is gone
deleteTask_delete_result(q) ==
    IF q.id \notin TaskIds THEN INTERNAL_SERVER_ERROR ELSE Response(204, "")

deleteTask_delete(q) ==
    /\ q \in InFlight("deleteTask_delete")
    /\ tasks' = IF deleteTask_delete_result(q).status = 204
                THEN [i \in TaskIds \ {q.id} |-> tasks[i]]
                ELSE tasks
    /\ deleted' = IF deleteTask_delete_result(q).status = 204
                  THEN deleted \cup {q.id}
                  ELSE deleted
    /\ reqs' = Finish(q)
    /\ UNCHANGED <<clock, ticks, users, issued>>

----------------------------------------------------------------------------
(* taskController: toggleTaskStatus *)

\* a toggle that writes a third status
newStatus_Archived(status) == IF status = "pending" THEN "completed" ELSE "archived"

\* a toggle that only ever completes
newStatus_Completed(status) == "completed"

\* task.status === 'pending' ? 'completed' : 'pending'
newStatus(status) == IF status = "pending" THEN "completed" ELSE "pending"

toggleTaskStatus_result(authorization, id) ==
    IF protect(authorization).response # Pending
    THEN protect(authorization).response
    ELSE IF findOwnTask(id, protect(authorization).userId) = 0
    THEN NOT_FOUND
    ELSE Pending

toggleTaskStatus(authorization, id) ==
    /\ CanAccept
    /\ reqs' = IF toggleTaskStatus_result(authorization, id) = Pending
               THEN Await([pc |-> "toggleTaskStatus_update", id |-> id,
                           userId |-> protect(authorization).userId,
                           task |-> tasks[id]])
               ELSE reqs
    /\ UNCHANGED <<clock, ticks, users, tasks, deleted, issued>>

\* a late write that answers as the ownership check would
toggleTaskStatus_update_result_NotFound(q) ==
    IF q.id \notin TaskIds
    THEN NOT_FOUND
    ELSE TaskResponse(200, [tasks[q.id] EXCEPT !.status = newStatus(q.task.status)])

\* prisma.task.update({ where: { id }, data: { status: newStatus } })
toggleTaskStatus_update_result(q) ==
    IF q.id \notin TaskIds
    THEN INTERNAL_SERVER_ERROR
    ELSE TaskResponse(200, [tasks[q.id] EXCEPT !.status = newStatus(q.task.status)])

toggleTaskStatus_update(q) ==
    /\ q \in InFlight("toggleTaskStatus_update")
    /\ tasks' = IF toggleTaskStatus_update_result(q).status = 200
                THEN [tasks EXCEPT ![q.id] = toggleTaskStatus_update_result(q).task]
                ELSE tasks
    /\ reqs' = Finish(q)
    /\ UNCHANGED <<clock, ticks, users, deleted, issued>>

----------------------------------------------------------------------------
(* Initial state: an empty datastore, no request in flight *)

Init ==
    /\ clock = 0
    /\ ticks = 0
    /\ users = <<>>
    /\ tasks = <<>>
    /\ deleted = {}
    /\ issued = {}
    /\ superseded = {}
    /\ cleared = {}
    /\ toggled = [id \in 1..MaxTasks |-> <<>>]
    /\ reqs = EmptyBag

----------------------------------------------------------------------------
(* History variables, written beside the step they record *)

\* a login's write overwrites the stored refresh token of q.id
RecordSuperseded(q) ==
    superseded' = superseded \cup ({users[q.id].refreshToken} \ {NullToken})

\* a logout presents the stored refresh token of its user / the user logs in
RecordCleared(cookie) ==
    cleared' = IF logoutUser_verified(cookie) /\ cookie.id \in UserIds
                  /\ users[cookie.id].refreshToken = cookie
               THEN cleared \cup {cookie}
               ELSE cleared

RecordLogin(q) == cleared' = {t \in cleared : t.id # q.id}

----------------------------------------------------------------------------
(* The session life cycle: the users register and log in with their own    *)
(* password while the clock moves from one second to the next.             *)

PwA == <<"a", "A", "1", "!", "a", "a", "a", "a">>
PwB == <<"b", "B", "2", "@", "b", "b", "b", "b">>

NextSession ==
    \/ Tick(1) /\ UNCHANGED <<superseded, cleared, toggled>>
    \/ \E e \in Emails : registerUser(e, PwA) /\ UNCHANGED <<superseded, cleared, toggled>>
    \/ \E q \in InFlight("registerUser_create") :
          registerUser_create(q) /\ UNCHANGED <<superseded, cleared, toggled>>
    \/ \E e \in Emails : loginUser(e, PwA) /\ UNCHANGED <<superseded, cleared, toggled>>
    \/ \E q \in InFlight("loginUser_update") :
          loginUser_update(q) /\ RecordLogin(q) /\ UNCHANGED <<superseded, toggled>>
    \/ \E c \in Presentable : refreshToken(c) /\ UNCHANGED <<superseded, cleared, toggled>>
    \/ \E c \in Presentable : logoutUser(c) /\ RecordCleared(c) /\ UNCHANGED <<superseded, toggled>>

SpecSession == Init /\ [][NextSession]_vars

\* The same, recording the refresh tokens that logins overwrite
NextRotation ==
    \/ Tick(1) /\ UNCHANGED <<superseded, cleared, toggled>>
    \/ \E e \in Emails : registerUser(e, PwA) /\ UNCHANGED <<superseded, cleared, toggled>>
    \/ \E q \in InFlight("registerUser_create") :
          registerUser_create(q) /\ UNCHANGED <<superseded, cleared, toggled>>
    \/ \E e \in Emails : loginUser(e, PwA) /\ UNCHANGED <<superseded, cleared, toggled>>
    \/ \E q \in InFlight("loginUser_update") :
          loginUser_update(q) /\ RecordSuperseded(q) /\ UNCHANGED <<cleared, toggled>>
    \/ \E c \in Presentable : refreshToken(c) /\ UNCHANGED <<superseded, cleared, toggled>>
    \/ \E c \in Presentable : logoutUser(c) /\ UNCHANGED <<superseded, cleared, toggled>>

SpecRotation == Init /\ [][NextRotation]_vars

\* C2: a refresh that presents a refresh token other than the value stored for
\* its user is answered 403 without an access token; in particular a refresh
\* token that a later login has overwritten is answered 403.
C2_StaleRefreshForbidden ==
    /\ \A c \in Presentable \ {NoToken, EmptyToken} :
          (c.id \notin UserIds \/ users[c.id].refreshToken # c)
             => /\ refreshToken_result(c).status = 403
                /\ refreshToken_result(c).accessToken = NoToken
    /\ \A c \in superseded :
          /\ refreshToken_result(c).status = 403
          /\ refreshToken_result(c).accessToken = NoToken

\* the first half of C2 alone
C2_MismatchForbidden ==
    \A c \in Presentable \ {NoToken, EmptyToken} :
        (c.id \notin UserIds \/ users[c.id].refreshToken # c)
           => /\ refreshToken_result(c).status = 403
              /\ refreshToken_result(c).accessToken = NoToken

\* C3: from a logout that presented its user's stored refresh token until that
\* user's next login, the stored refresh token is null and a refresh that
\* presents the token is answered 403 without an access token.
C3_LogoutInvalidates ==
    \A c \in cleared :
        /\ users[c.id].refreshToken = NullToken
        /\ refreshToken_result(c).status = 403
        /\ refreshToken_result(c).accessToken = NoToken

\* a logged-out user, the clock past the second of the login, the user's next
\* login in flight
C3_Witness ==
    \E c \in cleared :
        /\ clock > c.iat
        /\ refreshToken_result(c).status = 403
        /\ \E q \in InFlight("loginUser_update") : q.id = c.id

\* C8: a logout changes a stored refresh token only of the user its token
\* decodes to, only when the token equals the stored value, and only to null;
\* a logout presenting a token that a later login has overwritten changes
\* nothing.
C8_LogoutClearsOnlyPresented ==
    [][\A c \in Presentable :
          logoutUser(c) =>
             /\ \A i \in UserIds :
                   users'[i] # users[i] =>
                      /\ i = c.id
                      /\ users[i].refreshToken = c
                      /\ users'[i].refreshToken = NullToken
             /\ c \in superseded => users' = users]_vars

\* the first and the last part of C8 alone
C8_LogoutMatchesStored ==
    [][\A c \in Presentable :
          logoutUser(c) =>
             \A i \in UserIds :
                users'[i] # users[i] =>
                   /\ i = c.id
                   /\ users[i].refreshToken = c
                   /\ users'[i].refreshToken = NullToken]_vars

----------------------------------------------------------------------------
(* Registration: one email, passwords of every mix of character classes    *)
(* around the minimum length.                                              *)

\* one character of each class: lower, upper, digit, special, and one that is
\* in none of them
ClassChars == <<"a", "A", "1", "!", "_">>

\* the i-th smallest element of S
Nth(S, i) == CHOOSE x \in S : Cardinality({y \in S : y < x}) = i - 1

\* the password of length n with one character of each class in S, filled up
\* with the first of them
ClassPassword(S, n) ==
    [i \in 1..n |-> IF i <= Cardinality(S) THEN ClassChars[Nth(S, i)]
                    ELSE ClassChars[Nth(S, 1)]]

PasswordLengths ==
    {MIN_PASSWORD_LENGTH - 1, MIN_PASSWORD_LENGTH, MIN_PASSWORD_LENGTH + 1}

RegisterPasswords ==
    {ClassPassword(S, n) : S \in (SUBSET (1..5)) \ {{}}, n \in PasswordLengths}
        \cup {[PwA EXCEPT ![4] = ch] : ch \in Special}
        \cup {PwB, Append(PwA, " "), Append(PwA, "\n")}

RegisterEmails == {"a@x", Undefined, ""}

NextRegister ==
    \/ \E e \in RegisterEmails, p \in RegisterPasswords \cup {UndefinedSeq, <<>>} :
          registerUser(e, p) /\ UNCHANGED <<superseded, cleared, toggled>>
    \/ \E q \in InFlight("registerUser_create") :
          registerUser_create(q) /\ UNCHANGED <<superseded, cleared, toggled>>

SpecRegister == Init /\ [][NextRegister]_vars

\* the five rules of PASSWORD_REQUIREMENTS
FiveRules(p) ==
    /\ Len(p) >= 8
    /\ \E i \in 1..Len(p) : p[i] \in Upper
    /\ \E i \in 1..Len(p) : p[i] \in Lower
    /\ \E i \in 1..Len(p) : p[i] \in Digit
    /\ \E i \in 1..Len(p) : p[i] \in Special

Registered(e) == findUserByEmail(e) # 0

\* C4 as amended: registerUser with the email of a stored user creates no user:
\* it ends before prisma.user.create, with 409 when the password is there and
\* passes PASSWORD_REGEX, with 400 when it is missing or fails the regex; no
\* stored email is ever stored twice.
C4_ExistingEmailCreatesNoUser ==
    /\ \A e \in Emails, p \in RegisterPasswords \cup {UndefinedSeq, <<>>} :
          Registered(e) =>
             /\ registerUser_result(e, p) # Pending
             /\ registerUser_result(e, p).status =
                   IF ~FalsySeq(p) /\ PASSWORD_REGEX_test(p) THEN 409 ELSE 400
    /\ \A i, j \in UserIds : users[i].email = users[j].email => i = j

\* a stored user, a second registration of the email refused at create, and
\* both answers possible
C4_Witness ==
    /\ \E e \in Emails :
          /\ Registered(e)
          /\ \E p \in RegisterPasswords : registerUser_result(e, p).status = 409
          /\ \E p \in RegisterPasswords : registerUser_result(e, p).status = 400
    /\ \E q \in InFlight("registerUser_create") : Registered(q.email)

\* C4 as stated: registerUser with the email of a stored user answers 409
\* whatever the password.
C4_ExistingEmailAlwaysConflict ==
    \A e \in Emails, p \in RegisterPasswords \cup {UndefinedSeq, <<>>} :
        Registered(e) =>
           /\ registerUser_result(e, p).status = 409
           /\ registerUser_result(e, p) # Pending

\* C6: for a new email, registerUser answers 400 with the requirements message
\* to every password that fails one of the five rules, and accepts (goes on to
\* create the user, 201) every password that satisfies the five.
C6_FiveRulesDecide ==
    \A e \in Emails, p \in RegisterPasswords :
        ~Registered(e) =>
           IF FiveRules(p)
           THEN /\ registerUser_result(e, p) = Pending
                /\ registerUser_create_result([email |-> e, password |-> p]).status = 201
           ELSE registerUser_result(e, p) = Response(400, PASSWORD_REQUIREMENTS)

\* C6 with the rule the regex adds: no character outside the four classes
C6_RegexDecides ==
    \A e \in Emails, p \in RegisterPasswords :
        ~Registered(e) =>
           IF FiveRules(p) /\ \A i \in 1..Len(p) :
                                 p[i] \in Upper \cup Lower \cup Digit \cup Special
           THEN /\ registerUser_result(e, p) = Pending
                /\ registerUser_create_result([email |-> e, password |-> p]).status = 201
           ELSE registerUser_result(e, p) = Response(400, PASSWORD_REQUIREMENTS)

----------------------------------------------------------------------------
(* Login: right and wrong passwords, stored and unknown emails *)

LoginEmails == Emails \cup {"c@x", Undefined, ""}

LoginPasswords == {PwA, PwB, UndefinedSeq, <<>>}

NextLogin ==
    \/ Tick(1) /\ UNCHANGED <<superseded, cleared, toggled>>
    \/ \E e \in Emails : registerUser(e, PwA) /\ UNCHANGED <<superseded, cleared, toggled>>
    \/ \E q \in InFlight("registerUser_create") :
          registerUser_create(q) /\ UNCHANGED <<superseded, cleared, toggled>>
    \/ \E e \in LoginEmails, p \in LoginPasswords :
          loginUser(e, p) /\ UNCHANGED <<superseded, cleared, toggled>>
    \/ \E q \in InFlight("loginUser_update") :
          loginUser_update(q) /\ UNCHANGED <<superseded, cleared, toggled>>

SpecLogin == Init /\ [][NextLogin]_vars

WrongPassword(e, p) ==
    /\ Registered(e)
    /\ ~FalsySeq(p)
    /\ ~bcrypt_compare(p, users[findUserByEmail(e)].password)

UnknownEmail(e, p) ==
    /\ ~Falsy(e)
    /\ ~Registered(e)
    /\ ~FalsySeq(p)

\* C5: loginUser with a stored email and a wrong password, and loginUser with
\* an email that is not stored, are answered alike: 401, the same body, no
\* cookie and no access token; the request ends there, before any write.
C5_LoginFailuresAlike ==
    \A e1 \in LoginEmails, p1 \in LoginPasswords, e2 \in LoginEmails, p2 \in LoginPasswords :
        WrongPassword(e1, p1) /\ UnknownEmail(e2, p2) =>
           /\ loginUser_result(e1, p1) = loginUser_result(e2, p2)
           /\ loginUser_result(e1, p1).status = 401
           /\ loginUser_result(e1, p1).setCookie = NoToken
           /\ loginUser_result(e1, p1).accessToken = NoToken

\* a user with a live session, whose password is tried wrong, and an unknown
\* email
C5_Witness ==
    /\ \E e \in LoginEmails, p \in LoginPasswords :
          /\ WrongPassword(e, p)
          /\ users[findUserByEmail(e)].refreshToken # NullToken
          /\ loginUser_result(e, p).status = 401
    /\ \E e \in LoginEmails, p \in LoginPasswords :
          UnknownEmail(e, p) /\ loginUser_result(e, p).status = 401

----------------------------------------------------------------------------
(* The access guard: tokens of every kind and age in front of createTask *)

\* the clock moves by a second, or to the last second of an access token's
\* life, or to its end
GuardJumps == {1, ACCESS_EXPIRES_IN - 1, ACCESS_EXPIRES_IN}

TitleA == <<"a">>

\* both users register, in either order; one of them logs in
GuardLogins == {"b@x"}

NextGuard ==
    \/ \E d \in GuardJumps : Tick(d) /\ UNCHANGED <<superseded, cleared, toggled>>
    \/ \E e \in Emails : registerUser(e, PwA) /\ UNCHANGED <<superseded, cleared, toggled>>
    \/ \E q \in InFlight("registerUser_create") :
          registerUser_create(q) /\ UNCHANGED <<superseded, cleared, toggled>>
    \/ \E e \in GuardLogins : loginUser(e, PwA) /\ UNCHANGED <<superseded, cleared, toggled>>
    \/ \E q \in InFlight("loginUser_update") :
          loginUser_update(q) /\ UNCHANGED <<superseded, cleared, toggled>>
    \/ \E c \in Presentable : refreshToken(c) /\ UNCHANGED <<superseded, cleared, toggled>>
    \/ \E h \in Headers :
          createTask(h, TitleA, Undefined) /\ UNCHANGED <<superseded, cleared, toggled>>

SpecGuard == Init /\ [][NextGuard]_vars

\* signed by generateTokens as an access token
IssuedAccessTokens == {t \in issued : t.secret = ACCESS_SECRET}

\* C7: protect passes a request on exactly when its bearer token was issued as
\* an access token less than ACCESS_EXPIRES_IN seconds ago, and then with the
\* identity of the token's user: createTask stores that user as the owner.
\* Every other request is answered 401 by protect and creates nothing, and
\* every stored task was created under an access token of its owner that was
\* less than ACCESS_EXPIRES_IN old.
C7_GuardPassesFreshAccessTokens ==
    /\ \A h \in Headers :
          /\ protect(h).response = Pending
                <=> /\ h.scheme = "Bearer"
                    /\ h.token \in IssuedAccessTokens
                    /\ clock - h.token.iat < ACCESS_EXPIRES_IN
          /\ protect(h).response = Pending =>
                /\ protect(h).userId = h.token.id
                /\ createTask_result(h, TitleA, Undefined).status = 201
                /\ createTask_result(h, TitleA, Undefined).task.userId = h.token.id
          /\ protect(h).response # Pending =>
                /\ protect(h).response.status = 401
                /\ createTask_result(h, TitleA, Undefined) = protect(h).response
    /\ \A id \in TaskIds :
          \E t \in IssuedAccessTokens :
              /\ t.id = tasks[id].userId
              /\ t.iat <= tasks[id].createdAt
              /\ tasks[id].createdAt - t.iat < ACCESS_EXPIRES_IN

\* a task created under an access token that has since run out and is now
\* answered 401, next to the refresh token of the same login, also refused
C7_Witness ==
    \E id \in TaskIds, t \in IssuedAccessTokens :
        /\ t.id = tasks[id].userId
        /\ clock - t.iat >= ACCESS_EXPIRES_IN
        /\ protect(Header("Bearer", t)).response.status = 401
        /\ \E r \in issued :
              /\ r.secret = REFRESH_SECRET
              /\ protect(Header("Bearer", r)).response.status = 401

----------------------------------------------------------------------------
(* Two users and their tasks: every task route, by either user, on every id *)

TitleB == <<"B">>

\* the headers of the task requests: none, and every token handed out so far
TaskHeaders == {NoHeader} \cup {Header("Bearer", t) : t \in issued}

NoQuery == Query(Undefined, UndefinedSeq, UndefinedSeq, UndefinedSeq)

Retitle == Body(TitleB, Undefined, Undefined)

NextIsolation ==
    \/ \E e \in Emails : registerUser(e, PwA) /\ UNCHANGED <<superseded, cleared, toggled>>
    \/ \E q \in InFlight("registerUser_create") :
          registerUser_create(q) /\ UNCHANGED <<superseded, cleared, toggled>>
    \/ \E e \in Emails : loginUser(e, PwA) /\ UNCHANGED <<superseded, cleared, toggled>>
    \/ \E q \in InFlight("loginUser_update") :
          loginUser_update(q) /\ UNCHANGED <<superseded, cleared, toggled>>
    \/ \E h \in TaskHeaders :
          createTask(h, TitleA, Undefined) /\ UNCHANGED <<superseded, cleared, toggled>>
    \/ \E h \in TaskHeaders, id \in TaskIdParams :
          getTaskById(h, id) /\ UNCHANGED <<superseded, cleared, toggled>>
    \/ \E h \in TaskHeaders :
          getTasks(h, NoQuery) /\ UNCHANGED <<superseded, cleared, toggled>>
    \/ \E q \in InFlight("getTasks_findMany") :
          getTasks_findMany(q) /\ UNCHANGED <<superseded, cleared, toggled>>
    \/ \E h \in TaskHeaders, id \in TaskIdParams :
          updateTask(h, id, Retitle) /\ UNCHANGED <<superseded, cleared, toggled>>
    \/ \E q \in InFlight("updateTask_update") :
          updateTask_update(q) /\ UNCHANGED <<superseded, cleared, toggled>>
    \/ \E h \in TaskHeaders, id \in TaskIdParams :
          deleteTask(h, id) /\ UNCHANGED <<superseded, cleared, toggled>>
    \/ \E q \in InFlight("deleteTask_delete") :
          deleteTask_delete(q) /\ UNCHANGED <<superseded, cleared, toggled>>
    \/ \E h \in TaskHeaders, id \in TaskIdParams :
          toggleTaskStatus(h, id) /\ UNCHANGED <<superseded, cleared, toggled>>
    \/ \E q \in InFlight("toggleTaskStatus_update") :
          toggleTaskStatus_update(q) /\ UNCHANGED <<superseded, cleared, toggled>>

SpecIsolation == Init /\ [][NextIsolation]_vars

\* the requests that have passed their ownership check and wait to write
Mutators ==
    InFlight("updateTask_update") \cup InFlight("deleteTask_delete")
        \cup InFlight("toggleTaskStatus_update")

\* an id no task has
NoSuchId == MaxTasks + 1

\* the request of user a on the task id of another user is answered as the
\* same request on an id that no task has: 404, nothing in flight
ForeignIsNotFound ==
    \A h \in TaskHeaders, id \in TaskIds :
        (protect(h).response = Pending /\ protect(h).userId # tasks[id].userId) =>
           /\ getTaskById_result(h, id) = NOT_FOUND
           /\ getTaskById_result(h, id) = getTaskById_result(h, NoSuchId)
           /\ updateTask_result(h, id, Retitle) = NOT_FOUND
           /\ updateTask_result(h, id, Retitle) = updateTask_result(h, NoSuchId, Retitle)
           /\ deleteTask_result(h, id) = NOT_FOUND
           /\ deleteTask_result(h, id) = deleteTask_result(h, NoSuchId)
           /\ toggleTaskStatus_result(h, id) = NOT_FOUND
           /\ toggleTaskStatus_result(h, id) = toggleTaskStatus_result(h, NoSuchId)

\* no request waits to write a task of another user, and no list holds one
OwnTasksOnly ==
    /\ \A q \in Mutators : q.id \in TaskIds => tasks[q.id].userId = q.userId
    /\ \A q \in InFlight("getTasks_findMany") :
          \A r \in getTasks_findMany_results(q) :
              \A i \in DOMAIN r.tasks : r.tasks[i].userId = q.where.userId

\* a step that changes or removes a task is the write of a request of its owner
OwnerWritesOnly ==
    \A id \in TaskIds :
        (id \notin DOMAIN tasks' \/ tasks'[id] # tasks[id]) =>
           \E q \in Mutators :
               /\ q.id = id
               /\ q.userId = tasks[id].userId
               /\ reqs' = Finish(q)

\* C1: a task of user B is not returned to, changed, deleted or toggled by a
\* request of another user A: A's list never holds it; getTaskById,
\* updateTask, deleteTask and toggleTaskStatus by A on its id answer 404 as on
\* an id that does not exist, and only requests of B ever write it.
C1_TasksAreIsolated ==
    /\ [](ForeignIsNotFound /\ OwnTasksOnly)
    /\ [][OwnerWritesOnly]_vars

\* both users hold a task, user 1 lists while the task of user 2 has been
\* changed by its owner, and user 1 is refused that task
C1_Witness ==
    /\ \E i, j \in TaskIds :
          /\ tasks[i].userId = 1 /\ tasks[j].userId = 2
          /\ tasks[j].title = TitleB
          /\ \E h \in TaskHeaders :
                /\ protect(h) = Guarded(Pending, 1)
                /\ getTaskById_result(h, j) = NOT_FOUND
                /\ getTaskById_result(h, i).status = 200
    /\ \E q \in InFlight("getTasks_findMany") :
          /\ q.where.userId = 1
          /\ \E r \in getTasks_findMany_results(q) : Len(r.tasks) = 1

----------------------------------------------------------------------------
(* One user and one task at a time: create, update and toggle, interleaved *)

Complete == Body(UndefinedSeq, Undefined, "completed")

Archive == Body(UndefinedSeq, Undefined, "archived")

NoFields == Body(UndefinedSeq, Undefined, Undefined)

Bodies == {Retitle, Complete, Archive, NoFields}

\* a toggle that wrote over the row it had read adds that row to the task's
\* history, of which the last two are kept; any other write begins it anew
RecordToggle(q) ==
    toggled' = IF toggleTaskStatus_update_result(q).status # 200
               THEN toggled
               ELSE IF tasks[q.id] # q.task
               THEN [toggled EXCEPT ![q.id] = <<>>]
               ELSE IF Len(toggled[q.id]) < 2
               THEN [toggled EXCEPT ![q.id] = Append(@, q.task)]
               ELSE [toggled EXCEPT ![q.id] = <<@[2], q.task>>]

RecordUpdate(q) ==
    toggled' = IF updateTask_update_result(q).status = 200
               THEN [toggled EXCEPT ![q.id] = <<>>]
               ELSE toggled

NextToggle ==
    \/ registerUser("a@x", PwA) /\ UNCHANGED <<superseded, cleared, toggled>>
    \/ \E q \in InFlight("registerUser_create") :
          registerUser_create(q) /\ UNCHANGED <<superseded, cleared, toggled>>
    \/ loginUser("a@x", PwA) /\ UNCHANGED <<superseded, cleared, toggled>>
    \/ \E q \in InFlight("loginUser_update") :
          loginUser_update(q) /\ UNCHANGED <<superseded, cleared, toggled>>
    \/ \E h \in TaskHeaders :
          /\ TaskIds = {}
          /\ createTask(h, TitleA, Undefined)
          /\ UNCHANGED <<superseded, cleared, toggled>>
    \/ \E h \in TaskHeaders, id \in TaskIdParams, body \in Bodies :
          updateTask(h, id, body) /\ UNCHANGED <<superseded, cleared, toggled>>
    \/ \E q \in InFlight("updateTask_update") :
          updateTask_update(q) /\ RecordUpdate(q) /\ UNCHANGED <<superseded, cleared>>
    \/ \E h \in TaskHeaders, id \in TaskIdParams :
          toggleTaskStatus(h, id) /\ UNCHANGED <<superseded, cleared, toggled>>
    \/ \E q \in InFlight("toggleTaskStatus_update") :
          toggleTaskStatus_update(q) /\ RecordToggle(q) /\ UNCHANGED <<superseded, cleared>>

SpecToggle == Init /\ [][NextToggle]_vars

\* pending to completed and back
Toggled(status) ==
    CASE status = "pending" -> "completed"
      [] status = "completed" -> "pending"
      [] OTHER -> "<neither>"

FrameKept(q) ==
    /\ tasks'[q.id].title =
          IF q.body.title = UndefinedSeq THEN tasks[q.id].title ELSE q.body.title
    /\ tasks'[q.id].description =
          IF q.body.description = Undefined THEN tasks[q.id].description
          ELSE q.body.description
    /\ tasks'[q.id].status =
          IF q.body.status = Undefined THEN tasks[q.id].status ELSE q.body.status

\* C10: updateTask with none of the three fields is answered 400 and nothing
\* waits to write; the write of an update gives the supplied fields their new
\* values and leaves every other field as it was just before the write, also
\* when another request wrote the task after the update's ownership check.
C10_UpdateIsPartial ==
    [][/\ \A h \in TaskHeaders, id \in TaskIds :
             protect(h).response = Pending =>
                updateTask_result(h, id, NoFields).status = 400
       /\ \A q \in InFlight("updateTask_update") :
             (updateTask_update(q) /\ updateTask_update_result(q).status = 200) =>
                FrameKept(q)]_vars

\* C10 without the interleaving: an update whose row is still as its ownership
\* check found it
C10_UpdateIsPartialAlone ==
    [][/\ \A h \in TaskHeaders, id \in TaskIds :
             protect(h).response = Pending =>
                updateTask_result(h, id, NoFields).status = 400
       /\ \A q \in InFlight("updateTask_update") :
             (/\ updateTask_update(q)
              /\ updateTask_update_result(q).status = 200
              /\ tasks[q.id] = q.existingTask) =>
                FrameKept(q)]_vars

----------------------------------------------------------------------------
(* The status of the stored tasks *)

----------------------------------------------------------------------------
(* Lists: one user, registered and logged in once, whose tasks differ in   *)
(* title, status and age, listed with several filters, limits and pages;   *)
(* one list and one toggle at a time, beside the other requests.           *)

One == <<"1">>
Two == <<"2">>
Three == <<"3">>

Queries ==
    {NoQuery,
     Query(Undefined, UndefinedSeq, One, One),
     Query(Undefined, UndefinedSeq, Two, One),
     Query(Undefined, UndefinedSeq, Three, One),
     Query(Undefined, UndefinedSeq, One, Two),
     Query(Undefined, UndefinedSeq, Two, Two),
     Query("completed", UndefinedSeq, UndefinedSeq, One),
     Query("", <<"b">>, Two, One),
     Query(Undefined, <<" ">>, UndefinedSeq, Two)}

NextPaging ==
    \/ Tick(1) /\ UNCHANGED <<superseded, cleared, toggled>>
    \/ /\ users = <<>> /\ InFlight("registerUser_create") = {}
       /\ registerUser("a@x", PwA)
       /\ UNCHANGED <<superseded, cleared, toggled>>
    \/ \E q \in InFlight("registerUser_create") :
          registerUser_create(q) /\ UNCHANGED <<superseded, cleared, toggled>>
    \/ /\ issued = {} /\ InFlight("loginUser_update") = {}
       /\ loginUser("a@x", PwA)
       /\ UNCHANGED <<superseded, cleared, toggled>>
    \/ \E q \in InFlight("loginUser_update") :
          loginUser_update(q) /\ UNCHANGED <<superseded, cleared, toggled>>
    \/ \E h \in TaskHeaders, title \in {TitleA, TitleB} :
          createTask(h, title, Undefined) /\ UNCHANGED <<superseded, cleared, toggled>>
    \/ \E h \in TaskHeaders, id \in TaskIdParams :
          /\ InFlight("toggleTaskStatus_update") = {}
          /\ toggleTaskStatus(h, id)
          /\ UNCHANGED <<superseded, cleared, toggled>>
    \/ \E q \in InFlight("toggleTaskStatus_update") :
          toggleTaskStatus_update(q) /\ UNCHANGED <<superseded, cleared, toggled>>
    \/ \E h \in TaskHeaders, query \in Queries :
          /\ InFlight("getTasks_findMany") = {}
          /\ getTasks(h, query)
          /\ UNCHANGED <<superseded, cleared, toggled>>
    \/ \E q \in InFlight("getTasks_findMany") :
          getTasks_findMany(q) /\ UNCHANGED <<superseded, cleared, toggled>>

SpecPaging == Init /\ [][NextPaging]_vars

Min(a, b) == IF a < b THEN a ELSE b

Max(a, b) == IF a < b THEN b ELSE a

\* the matching tasks created after the row, and those created no earlier
Newer(row, where) == {id \in Matching(where) : tasks[id].createdAt > row.createdAt}

NoOlder(row, where) == {id \in Matching(where) : tasks[id].createdAt >= row.createdAt}

\* the row can stand at position k of a newest-first order of the matching tasks
AtPosition(row, k, where) ==
    /\ row.id \in Matching(where)
    /\ tasks[row.id] = row
    /\ Cardinality(Newer(row, where)) < k
    /\ k <= Cardinality(NoOlder(row, where))

\* C12 for a request q between its count and its findMany
PageIsRight(q, r) ==
    LET N == Cardinality(Matching(q.where))
        L == q.limitNumber
        p == q.pageNumber
    IN  /\ Len(r.tasks) = Min(L, Max(0, N - (p - 1) * L))
        /\ \A i \in 1..Len(r.tasks) : AtPosition(r.tasks[i], (p - 1) * L + i, q.where)
        /\ \A i, j \in 1..Len(r.tasks) : i # j => r.tasks[i].id # r.tasks[j].id
        /\ r.totalTasks = N
        /\ r.totalPages * L >= N
        /\ (r.totalPages - 1) * L < N \/ (N = 0 /\ r.totalPages = 0)
        /\ r.currentPage = p
        /\ r.limit = L

\* C12: while the user's N matching tasks stay N between the count and the
\* findMany, getTasks with limit L >= 1 and page p >= 1 answers with
\* min(L, max(0, N - (p-1)L)) tasks, those at positions (p-1)L+1 .. pL of a
\* newest-first order of the matching tasks, with totalTasks = N and
\* totalPages = ceil(N / L); 25 tasks, limit 10, page 3: 5 tasks of 3 pages.
C12_PagesOfNewestFirst ==
    /\ \A q \in InFlight("getTasks_findMany") :
          (q.totalTasks = Cardinality(Matching(q.where))
              /\ q.limitNumber >= 1 /\ q.pageNumber >= 1) =>
             \A r \in getTasks_findMany_results(q) : PageIsRight(q, r)
    /\ Len(Page([i \in 1..25 |-> i], (3 - 1) * 10, 10)) = 5
    /\ Page([i \in 1..25 |-> i], (3 - 1) * 10, 10) = <<21, 22, 23, 24, 25>>
    /\ Ceil(25, 10) = 3

\* two tasks of different age, the second page of limit 1 waiting for its
\* findMany: it holds the older task alone
C12_Witness ==
    \E q \in InFlight("getTasks_findMany") :
        /\ q.pageNumber = 2 /\ q.limitNumber = 1
        /\ q.totalTasks = 2
        /\ Cardinality(Matching(q.where)) = 2
        /\ \E i, j \in TaskIds : tasks[i].createdAt < tasks[j].createdAt
        /\ \A r \in getTasks_findMany_results(q) :
              /\ Len(r.tasks) = 1
              /\ r.totalPages = 2
              /\ \A id \in TaskIds : tasks[id].createdAt >= r.tasks[1].createdAt

\* a list whose count and findMany saw different tasks: totalTasks is not the
\* number of tasks the pages are cut from
C12_TornWitness ==
    \E q \in InFlight("getTasks_findMany") :
        /\ q.totalTasks # Cardinality(Matching(q.where))
        /\ \E r \in getTasks_findMany_results(q) : Len(r.tasks) > r.totalTasks

----------------------------------------------------------------------------
(* Check, then act: one user, registered and logged in once, whose updates, *)
(* toggles and deletes of the same tasks interleave.                        *)

NextRace ==
    \/ /\ users = <<>> /\ InFlight("registerUser_create") = {}
       /\ registerUser("a@x", PwA)
       /\ UNCHANGED <<superseded, cleared, toggled>>
    \/ \E q \in InFlight("registerUser_create") :
          registerUser_create(q) /\ UNCHANGED <<superseded, cleared, toggled>>
    \/ /\ issued = {} /\ InFlight("loginUser_update") = {}
       /\ loginUser("a@x", PwA)
       /\ UNCHANGED <<superseded, cleared, toggled>>
    \/ \E q \in InFlight("loginUser_update") :
          loginUser_update(q) /\ UNCHANGED <<superseded, cleared, toggled>>
    \/ \E h \in TaskHeaders :
          createTask(h, TitleA, Undefined) /\ UNCHANGED <<superseded, cleared, toggled>>
    \/ \E h \in TaskHeaders, id \in TaskIdParams :
          updateTask(h, id, Retitle) /\ UNCHANGED <<superseded, cleared, toggled>>
    \/ \E q \in InFlight("updateTask_update") :
          updateTask_update(q) /\ UNCHANGED <<superseded, cleared, toggled>>
    \/ \E h \in TaskHeaders, id \in TaskIdParams :
          deleteTask(h, id) /\ UNCHANGED <<superseded, cleared, toggled>>
    \/ \E q \in InFlight("deleteTask_delete") :
          deleteTask_delete(q) /\ UNCHANGED <<superseded, cleared, toggled>>
    \/ \E h \in TaskHeaders, id \in TaskIdParams :
          toggleTaskStatus(h, id) /\ UNCHANGED <<superseded, cleared, toggled>>
    \/ \E q \in InFlight("toggleTaskStatus_update") :
          toggleTaskStatus_update(q) /\ UNCHANGED <<superseded, cleared, toggled>>

SpecRace == Init /\ [][NextRace]_vars

\* the answer the write of the mutator q gives
MutatorResult(q) ==
    CASE q.pc = "updateTask_update" -> updateTask_update_result(q)
      [] q.pc = "deleteTask_delete" -> deleteTask_delete_result(q)
      [] q.pc = "toggleTaskStatus_update" -> toggleTaskStatus_update_result(q)

\* the write of the mutator q
MutatorStep(q) ==
    CASE q.pc = "updateTask_update" -> updateTask_update(q)
      [] q.pc = "deleteTask_delete" -> deleteTask_delete(q)
      [] q.pc = "toggleTaskStatus_update" -> toggleTaskStatus_update(q)

\* q passed its ownership check and its task has been deleted since
Overtaken(q) == q \in Mutators /\ q.id \in deleted

\* C13: an updateTask, deleteTask or toggleTaskStatus that passed its check
\* before a concurrent deleteTask removed the task ends its write with 500
\* (not 404, not a success); the write changes no task: the deleted task is
\* not created again and every other task stays as it was.
C13_LateWriteFails ==
    /\ [](\A q \in Mutators : q.id \notin TaskIds =>
             /\ Overtaken(q)
             /\ MutatorResult(q) = INTERNAL_SERVER_ERROR
             /\ MutatorResult(q).status = 500)
    /\ [][\A q \in Mutators :
             (Overtaken(q) /\ MutatorStep(q)) =>
                /\ tasks' = tasks
                /\ deleted' = deleted
                /\ q.id \notin DOMAIN tasks']_vars
    /\ [](\A id \in deleted : id \notin TaskIds)

\* an update that passed its check on a task deleted since, beside another
\* task of the user
C13_Witness ==
    \E q \in InFlight("updateTask_update") :
        /\ Overtaken(q)
        /\ q.id \notin TaskIds
        /\ TaskIds # {}
        /\ updateTask_update_result(q).status = 500

\* the same for a toggle
C13_WitnessToggle ==
    \E q \in InFlight("toggleTaskStatus_update") :
        Overtaken(q) /\ toggleTaskStatus_update_result(q).status = 500

\* the same for a second delete
C13_WitnessDelete ==
    \E q \in InFlight("deleteTask_delete") :
        Overtaken(q) /\ deleteTask_delete_result(q).status = 500

====
